---- MODULE Spec2Model ----
(***************************************************************************)
(* plasmapy/atomic/particles.py: the taxonomy of special particles built   *)
(* by _ParticleZooClass.__init__ and the registry of particle records      *)
(* built by _create_Particles_dict, pass by pass.                          *)
(*                                                                         *)
(* A particle symbol is the sequence of its characters, so that the        *)
(* substring tests of the source ('nu' in lepton, 'e' in thing) are        *)
(* computed on the symbol itself.  A set is visited in an arbitrary order, *)
(* a list in its order.  One step of the model is one iteration of a loop  *)
(* (or the exit of the loop).                                              *)
(***************************************************************************)
EXTENDS Integers, Sequences, FiniteSets, TLC

VARIABLES
    _taxonomy_dict, \* ParticleZoo._taxonomy_dict: classification name -> set of symbols
    Particles,      \* the local dictionary of _create_Particles_dict
    _Particles,     \* the module-level registry, the result of the first call
    rebuilt,        \* the result of the latest later call of _create_Particles_dict
    calls,          \* number of calls of _create_Particles_dict that have returned
    pc,             \* the statement the program is at
    todo,           \* elements the running loop over a set has not visited yet
    idx,            \* position of the running loop over a list
    writes          \* history: number of item assignments per <<symbol, field>> in this call

vars == <<_taxonomy_dict, Particles, _Particles, rebuilt, calls, pc, todo, idx, writes>>

\* Number of calls of _create_Particles_dict that are followed (the module makes one).
MaxCalls == 2

----------------------------------------------------------------------------
(* Symbols: the string literals of the source, as character sequences.     *)

e_minus     == <<"e", "-">>
e_plus      == <<"e", "+">>
mu_minus    == <<"m", "u", "-">>
mu_plus     == <<"m", "u", "+">>
tau_minus   == <<"t", "a", "u", "-">>
tau_plus    == <<"t", "a", "u", "+">>
nu_e        == <<"n", "u", "_", "e">>
nu_mu       == <<"n", "u", "_", "m", "u">>
nu_tau      == <<"n", "u", "_", "t", "a", "u">>
anti_nu_e   == <<"a", "n", "t", "i", "_", "n", "u", "_", "e">>
anti_nu_mu  == <<"a", "n", "t", "i", "_", "n", "u", "_", "m", "u">>
anti_nu_tau == <<"a", "n", "t", "i", "_", "n", "u", "_", "t", "a", "u">>
p_plus      == <<"p", "+">>
p_minus     == <<"p", "-">>
n           == <<"n">>
antineutron == <<"a", "n", "t", "i", "n", "e", "u", "t", "r", "o", "n">>

\* Python's `sub in s` on strings.
Contains(sub, s) ==
    \E i \in 1..(Len(s) - Len(sub) + 1) : SubSeq(s, i, i + Len(sub) - 1) = sub

----------------------------------------------------------------------------
(* Values.  A physical quantity is <<value, unit>>, the value an opaque    *)
(* token; None is a value of another shape.                                *)

None     == <<"None">>
m_e      == <<"const.m_e", "kg">>
m_p      == <<"const.m_p", "kg">>
m_n      == <<"const.m_n", "kg">>
m_mu     == <<"1.883531594e-28", "kg">>
m_tau    == <<"3.16747e-27", "kg">>
t_mu     == <<"2.1969811e-6", "s">>
t_tau    == <<"2.906e-13", "s">>
t_n      == <<"881.5", "s">>
t_inf    == <<"np.inf", "s">>

IsQuantity(v) == Len(v) = 2
IsFinite(v)   == IsQuantity(v) /\ v[1] # "np.inf"

----------------------------------------------------------------------------
(* _ParticleZooClass.__init__                                              *)

leptons     == {e_minus, mu_minus, tau_minus, nu_e, nu_mu, nu_tau}
antileptons == {e_plus, mu_plus, tau_plus, anti_nu_e, anti_nu_mu, anti_nu_tau}
baryons     == {p_plus, n}
antibaryons == {p_minus, antineutron}
\* particles with the antibaryons in the place of the baryons.
particles_AntibaryonTypo == leptons \cup antibaryons
particles     == leptons \cup baryons
antiparticles == antileptons \cup antibaryons
fermions    == leptons \cup antileptons \cup baryons \cup antibaryons
bosons      == {}
neutrinos     == {lepton \in leptons : Contains(<<"n", "u">>, lepton)}
antineutrinos == {antilepton \in antileptons : Contains(<<"n", "u">>, antilepton)}

taxonomy ==
    [k \in {"lepton", "antilepton", "baryon", "antibaryon", "fermion", "boson",
            "neutrino", "antineutrinos", "matter", "antimatter"} |->
        CASE k = "lepton"        -> leptons
          [] k = "antilepton"    -> antileptons
          [] k = "baryon"        -> baryons
          [] k = "antibaryon"    -> antibaryons
          [] k = "fermion"       -> fermions
          [] k = "boson"         -> bosons
          [] k = "neutrino"      -> neutrinos
          [] k = "antineutrinos" -> antineutrinos
          [] k = "matter"        -> particles
          [] k = "antimatter"    -> antiparticles]

(* The properties of ParticleZoo: reads of _taxonomy_dict.                 *)
Zoo_leptons       == _taxonomy_dict["lepton"]
Zoo_antileptons   == _taxonomy_dict["antilepton"]
Zoo_baryons       == _taxonomy_dict["baryon"]
Zoo_antibaryons   == _taxonomy_dict["antibaryon"]
Zoo_fermions      == _taxonomy_dict["fermion"]
Zoo_bosons        == _taxonomy_dict["boson"]
Zoo_neutrinos     == _taxonomy_dict["neutrino"]
Zoo_antineutrinos == _taxonomy_dict["antineutrinos"]
Zoo_particles     == _taxonomy_dict["matter"]
Zoo_antiparticles == _taxonomy_dict["antimatter"]
Zoo_everything    == _taxonomy_dict["matter"] \cup _taxonomy_dict["antimatter"]

----------------------------------------------------------------------------
(* _create_Particles_dict                                                  *)

symbols_and_names ==
    << <<e_minus, "electron">>,
       <<e_plus, "positron">>,
       <<mu_minus, "muon">>,
       <<mu_plus, "antimuon">>,
       <<tau_minus, "tau">>,
       <<tau_plus, "antitau">>,
       <<nu_e, "electron neutrino">>,
       <<anti_nu_e, "electron antineutrino">>,
       <<nu_mu, "muon neutrino">>,
       <<anti_nu_mu, "muon antineutrino">>,
       <<nu_tau, "tau neutrino">>,
       <<anti_nu_tau, "tau antineutrino">>,
       <<p_plus, "proton">>,
       <<p_minus, "antiproton">>,
       <<n, "neutron">>,
       <<antineutron, "antineutron">> >>

proton_things  == <<p_plus, p_minus>>
neutron_things == <<n, antineutron>>

\* d[key] = value on a dictionary d.
Put(d, key, value) == (key :> value) @@ d

\* Every record the same dictionary object (dict.fromkeys(everything, dict())):
\* an item assignment to one record shows in all of them.
SetItem_SharedDict(P, symbol, field, value) ==
    [s \in DOMAIN P |-> Put(P[s], field, value)]

\* Particles[symbol][field] = value.
SetItem(P, symbol, field, value) ==
    [P EXCEPT ![symbol] = Put(P[symbol], field, value)]

\* The item assignments <<symbol, field, value>> of a block, carried out in order.
RECURSIVE Exec(_, _)
Exec(P, ws) ==
    IF ws = <<>> THEN P
    ELSE Exec(SetItem(P, Head(ws)[1], Head(ws)[2], Head(ws)[3]), Tail(ws))

RECURSIVE Count(_, _)
Count(w, ws) ==
    IF ws = <<>> THEN w
    ELSE Count(Put(w, <<Head(ws)[1], Head(ws)[2]>>,
                   IF <<Head(ws)[1], Head(ws)[2]>> \in DOMAIN w
                   THEN w[<<Head(ws)[1], Head(ws)[2]>>] + 1 ELSE 1),
               Tail(ws))

(* The body of each loop, as the item assignments it makes for one element. *)

NameBody(pair) == << <<pair[1], "name", pair[2]>> >>

FermionBody(fermion) == << <<fermion, "spin", "0.5">> >>

BosonBody(boson) == << <<boson, "spin", "0">> >>

LeptonBody(lepton) ==
    << <<lepton, "class", "lepton">>,
       <<lepton, "lepton number", 1>>,
       <<lepton, "baryon number", 0>>,
       <<lepton, "charge", IF lepton \notin Zoo_neutrinos THEN -1 ELSE 0>> >>

\* The lepton block copied without negating the lepton number.
AntileptonBody_CopyPaste(antilepton) ==
    << <<antilepton, "class", "antilepton">>,
       <<antilepton, "lepton number", 1>>,
       <<antilepton, "baryon number", 0>>,
       <<antilepton, "charge", IF antilepton \notin Zoo_antineutrinos THEN 1 ELSE 0>> >>

AntileptonBody(antilepton) ==
    << <<antilepton, "class", "antilepton">>,
       <<antilepton, "lepton number", -1>>,
       <<antilepton, "baryon number", 0>>,
       <<antilepton, "charge", IF antilepton \notin Zoo_antineutrinos THEN 1 ELSE 0>> >>

\* The baryon block with a generic charge, as the lepton blocks have.
BaryonBody_WithCharge(baryon) ==
    << <<baryon, "class", "baryon">>,
       <<baryon, "lepton number", 0>>,
       <<baryon, "baryon number", 1>>,
       <<baryon, "charge", 1>> >>

BaryonBody(baryon) ==
    << <<baryon, "class", "baryon">>,
       <<baryon, "lepton number", 0>>,
       <<baryon, "baryon number", 1>> >>

\* The antibaryon block without its lepton number.
AntibaryonBody_NoLeptonNumber(antibaryon) ==
    << <<antibaryon, "class", "antibaryon">>,
       <<antibaryon, "baryon number", -1>> >>

AntibaryonBody(antibaryon) ==
    << <<antibaryon, "class", "antibaryon">>,
       <<antibaryon, "lepton number", 0>>,
       <<antibaryon, "baryon number", -1>> >>

\* The tests with 'nu' typed for 'mu'.
generation_tests_NuTypo ==
    << << <<"e">>, 1 >>, << <<"n", "u">>, 2 >>, << <<"t", "a", "u">>, 3 >> >>

\* The tests of the if/elif chain of the generation pass: <<substring, generation>>.
generation_tests ==
    << << <<"e">>, 1 >>, << <<"m", "u">>, 2 >>, << <<"t", "a", "u">>, 3 >> >>

\* An if/elif chain over `tests`: the generation of the first test that matches.
RECURSIVE FirstMatch(_, _)
FirstMatch(tests, thing) ==
    IF tests = << >> THEN << >>
    ELSE IF Contains(Head(tests)[1], thing)
         THEN << <<thing, "generation", Head(tests)[2]>> >>
         ELSE FirstMatch(Tail(tests), thing)

GenerationBody(thing) == FirstMatch(generation_tests, thing)

\* The mass block without its `'nu' not in thing` guard.
MassBody_NoNeutrinoGuard(thing) ==
    IF Contains(<<"e">>, thing) THEN << <<thing, "mass", m_e>> >>
    ELSE IF Contains(<<"m", "u">>, thing)
         THEN << <<thing, "mass", m_mu>>, <<thing, "half-life", t_mu>> >>
    ELSE IF Contains(<<"t", "a", "u">>, thing)
         THEN << <<thing, "mass", m_tau>>, <<thing, "half-life", t_tau>> >>
    ELSE << >>

MassBody(thing) ==
    IF ~Contains(<<"n", "u">>, thing)
    THEN IF Contains(<<"e">>, thing) THEN << <<thing, "mass", m_e>> >>
         ELSE IF Contains(<<"m", "u">>, thing)
              THEN << <<thing, "mass", m_mu>>, <<thing, "half-life", t_mu>> >>
         ELSE IF Contains(<<"t", "a", "u">>, thing)
              THEN << <<thing, "mass", m_tau>>, <<thing, "half-life", t_tau>> >>
         ELSE << >>
    ELSE << >>

\* The neutrino mass as a numeric zero.
NeutrinoMassBody_Zero(thing) == << <<thing, "mass", <<"0", "kg">> >> >>

NeutrinoMassBody(thing) == << <<thing, "mass", None>> >>

ProtonMassBody(thing) == << <<thing, "mass", m_p>> >>

ProtonChargeBlock == << <<p_plus, "charge", 1>>, <<p_minus, "charge", -1>> >>

NeutronBody(thing) ==
    << <<thing, "mass", m_n>>,
       <<thing, "half-life", t_n>>,
       <<thing, "charge", 0>> >>

\* The default half-life without its `not in` test.
HalfLifeBody_Unconditional(P, thing) == << <<thing, "half-life", t_inf>> >>

HalfLifeBody(P, thing) ==
    IF "half-life" \notin DOMAIN P[thing]
    THEN << <<thing, "half-life", t_inf>> >>
    ELSE << >>

MatterBody(particle) == << <<particle, "antimatter", FALSE>> >>

AntimatterBody(antiparticle) == << <<antiparticle, "antimatter", TRUE>> >>

\* The set a loop iterates over ({} at a statement that is not a loop over a set).
Items(label) ==
    CASE label = "create"        -> Zoo_everything
      [] label = "spin"          -> Zoo_fermions
      [] label = "boson"         -> Zoo_bosons
      [] label = "lepton"        -> Zoo_leptons
      [] label = "antilepton"    -> Zoo_antileptons
      [] label = "baryon"        -> Zoo_baryons
      [] label = "antibaryon"    -> Zoo_antibaryons
      [] label = "generation"    -> Zoo_leptons \cup Zoo_antileptons
      [] label = "mass"          -> Zoo_leptons \cup Zoo_antileptons
      [] label = "neutrino_mass" -> Zoo_neutrinos \cup Zoo_antineutrinos
      [] label = "half_life"     -> Zoo_everything
      [] label = "matter"        -> Zoo_particles
      [] label = "antimatter"    -> Zoo_antiparticles
      [] OTHER                   -> {}

\* The list a loop iterates over (<<>> at a statement that is not a loop over a list).
ListOf(label) ==
    CASE label = "name"        -> symbols_and_names
      [] label = "proton_mass" -> proton_things
      [] label = "neutron"     -> neutron_things
      [] OTHER                 -> << >>

\* The item assignments the statement at `label` makes for the element x, the
\* registry being P.
BodyOf(label, P, x) ==
    CASE label = "name"          -> NameBody(x)
      [] label = "spin"          -> FermionBody(x)
      [] label = "boson"         -> BosonBody(x)
      [] label = "lepton"        -> LeptonBody(x)
      [] label = "antilepton"    -> AntileptonBody(x)
      [] label = "baryon"        -> BaryonBody(x)
      [] label = "antibaryon"    -> AntibaryonBody(x)
      [] label = "generation"    -> GenerationBody(x)
      [] label = "mass"          -> MassBody(x)
      [] label = "neutrino_mass" -> NeutrinoMassBody(x)
      [] label = "proton_mass"   -> ProtonMassBody(x)
      [] label = "neutron"       -> NeutronBody(x)
      [] label = "half_life"     -> HalfLifeBody(P, x)
      [] label = "matter"        -> MatterBody(x)
      [] label = "antimatter"    -> AntimatterBody(x)

\* The order of the statements of _create_Particles_dict.
Order ==
    << "create", "name", "spin", "boson", "lepton", "antilepton", "baryon",
       "antibaryon", "generation", "mass", "neutrino_mass", "proton_mass",
       "proton_charge", "neutron", "half_life", "matter", "antimatter", "return" >>

Position(label) == CHOOSE i \in 1..Len(Order) : Order[i] = label

InCall == \E i \in 1..Len(Order) : Order[i] = pc

Goto(label) ==
    /\ pc' = label
    /\ todo' = Items(label)
    /\ idx' = 1

Frame == UNCHANGED <<_taxonomy_dict, _Particles, rebuilt, calls>>

\* for x in <set>: <body>, at the statement pc.
SetLoop ==
    /\ IF todo = {}
       THEN /\ Goto(Order[Position(pc) + 1])
            /\ UNCHANGED <<Particles, writes>>
       ELSE \E x \in todo :
               /\ Particles' = Exec(Particles, BodyOf(pc, Particles, x))
               /\ writes' = Count(writes, BodyOf(pc, Particles, x))
               /\ todo' = todo \ {x}
               /\ UNCHANGED <<pc, idx>>
    /\ Frame

\* for x in <list>: <body>, at the statement pc.
ListLoop ==
    /\ IF idx > Len(ListOf(pc))
       THEN /\ Goto(Order[Position(pc) + 1])
            /\ UNCHANGED <<Particles, writes>>
       ELSE /\ Particles' = Exec(Particles, BodyOf(pc, Particles, ListOf(pc)[idx]))
            /\ writes' = Count(writes, BodyOf(pc, Particles, ListOf(pc)[idx]))
            /\ idx' = idx + 1
            /\ UNCHANGED <<pc, todo>>
    /\ Frame

\* ParticleZoo = _ParticleZooClass()
ZooInit ==
    /\ pc = "import"
    /\ _taxonomy_dict' = taxonomy
    /\ pc' = "call"
    /\ UNCHANGED <<Particles, _Particles, rebuilt, calls, todo, idx, writes>>

\* Particles = dict()
Call ==
    /\ pc = "call"
    /\ Particles' = << >>
    /\ writes' = << >>
    /\ Goto("create")
    /\ Frame

\* Particles[thing] = dict()
CreateBody(P, thing) == Put(P, thing, << >>)

\* for thing in ParticleZoo.everything
CreatePass ==
    /\ pc = "create"
    /\ IF todo = {}
       THEN /\ Goto("name")
            /\ UNCHANGED Particles
       ELSE \E thing \in todo :
               /\ Particles' = CreateBody(Particles, thing)
               /\ todo' = todo \ {thing}
               /\ UNCHANGED <<pc, idx>>
    /\ UNCHANGED writes
    /\ Frame

\* for symbol, name in symbols_and_names
NamePass ==
    /\ pc = "name"
    /\ ListLoop

\* for fermion in ParticleZoo.fermions
FermionPass ==
    /\ pc = "spin"
    /\ SetLoop

\* for boson in ParticleZoo.bosons
BosonPass ==
    /\ pc = "boson"
    /\ SetLoop

\* for lepton in ParticleZoo.leptons
LeptonPass ==
    /\ pc = "lepton"
    /\ SetLoop

\* for antilepton in ParticleZoo.antileptons
AntileptonPass ==
    /\ pc = "antilepton"
    /\ SetLoop

\* for baryon in ParticleZoo.baryons
BaryonPass ==
    /\ pc = "baryon"
    /\ SetLoop

\* for antibaryon in ParticleZoo.antibaryons
AntibaryonPass ==
    /\ pc = "antibaryon"
    /\ SetLoop

\* for thing in ParticleZoo.leptons | ParticleZoo.antileptons  (generation)
GenerationPass ==
    /\ pc = "generation"
    /\ SetLoop

\* for thing in ParticleZoo.leptons | ParticleZoo.antileptons  (mass, half-life)
MassPass ==
    /\ pc = "mass"
    /\ SetLoop

\* for thing in ParticleZoo.neutrinos | ParticleZoo.antineutrinos
NeutrinoMassPass ==
    /\ pc = "neutrino_mass"
    /\ SetLoop

\* for thing in ['p+', 'p-']
ProtonMassPass ==
    /\ pc = "proton_mass"
    /\ ListLoop

\* Particles['p+']['charge'] = 1; Particles['p-']['charge'] = -1
ProtonCharge ==
    /\ pc = "proton_charge"
    /\ Particles' = Exec(Particles, ProtonChargeBlock)
    /\ writes' = Count(writes, ProtonChargeBlock)
    /\ Goto("neutron")
    /\ Frame

\* for thing in ['n', 'antineutron']
NeutronPass ==
    /\ pc = "neutron"
    /\ ListLoop

\* for thing in ParticleZoo.everything  (default half-life)
HalfLifePass ==
    /\ pc = "half_life"
    /\ SetLoop

\* for particle in ParticleZoo.particles
MatterPass ==
    /\ pc = "matter"
    /\ SetLoop

\* for antiparticle in ParticleZoo.antiparticles
AntimatterPass ==
    /\ pc = "antimatter"
    /\ SetLoop

\* return Particles  (the first call is `_Particles = _create_Particles_dict()`)
Return ==
    /\ pc = "return"
    /\ IF calls = 0
       THEN _Particles' = Particles /\ UNCHANGED rebuilt
       ELSE rebuilt' = Particles /\ UNCHANGED _Particles
    /\ calls' = calls + 1
    /\ pc' = "done"
    /\ UNCHANGED <<_taxonomy_dict, Particles, todo, idx, writes>>

\* A further call of _create_Particles_dict() against the same ParticleZoo.
Rebuild ==
    /\ pc = "done"
    /\ calls < MaxCalls
    /\ pc' = "call"
    /\ UNCHANGED <<_taxonomy_dict, Particles, _Particles, rebuilt, calls, todo, idx, writes>>

Init ==
    /\ _taxonomy_dict = << >>
    /\ Particles = << >>
    /\ _Particles = << >>
    /\ rebuilt = << >>
    /\ calls = 0
    /\ pc = "import"
    /\ todo = {}
    /\ idx = 1
    /\ writes = << >>

Next ==
    \/ ZooInit
    \/ Call
    \/ CreatePass
    \/ NamePass
    \/ FermionPass
    \/ BosonPass
    \/ LeptonPass
    \/ AntileptonPass
    \/ BaryonPass
    \/ AntibaryonPass
    \/ GenerationPass
    \/ MassPass
    \/ NeutrinoMassPass
    \/ ProtonMassPass
    \/ ProtonCharge
    \/ NeutronPass
    \/ HalfLifePass
    \/ MatterPass
    \/ AntimatterPass
    \/ Return

\* The module as it runs: one construction of ParticleZoo, one build.
Spec == Init /\ [][Next]_vars

NextRebuild == Next \/ Rebuild

\* The module followed by further builds against the same ParticleZoo.
SpecRebuild == Init /\ [][NextRebuild]_vars

----------------------------------------------------------------------------
(* Properties.                                                             *)

Fields ==
    {"name", "class", "spin", "charge", "lepton number", "baryon number",
     "generation", "mass", "half-life", "antimatter"}

\* The first call has returned: _Particles is the finished registry.
Finished == calls >= 1

\* The statement at pc comes after the loop at `label` has ended.
After(label) == InCall /\ Position(pc) > Position(label)

(* C1 as stated: in the finished registry every symbol of everything has   *)
(* all ten fields, the baryons and antibaryons included.                   *)
C1_AllTenFields ==
    Finished => \A s \in Zoo_everything : DOMAIN _Particles[s] = Fields

(* C1, amended: in the finished registry every symbol of everything has    *)
(* the nine fields other than generation; generation is present for the    *)
(* twelve leptons and antileptons and absent for 'p+', 'p-', 'n' and       *)
(* 'antineutron'.                                                          *)
C1_NineFieldsAndGeneration ==
    Finished =>
        /\ DOMAIN _Particles = Zoo_everything
        /\ \A s \in Zoo_everything :
              DOMAIN _Particles[s] =
                  IF s \in Zoo_leptons \cup Zoo_antileptons
                  THEN Fields ELSE Fields \ {"generation"}

C1_Witness ==
    /\ Finished
    /\ DOMAIN _Particles[e_minus] = Fields
    /\ \A s \in {p_plus, p_minus, n, antineutron} :
          DOMAIN _Particles[s] = Fields \ {"generation"}

(* C2 as stated: when the proton-specific pass sets the charge of 'p+' and *)
(* 'p-', a generic class-level pass (the baryon and antibaryon passes) has *)
(* already set it, and the final charge is +1 and -1.                      *)
C2_ChargeOverwritten ==
    /\ pc = "proton_charge" =>
          /\ "charge" \in DOMAIN Particles[p_plus]
          /\ "charge" \in DOMAIN Particles[p_minus]
    /\ Finished => _Particles[p_plus]["charge"] = 1 /\ _Particles[p_minus]["charge"] = -1

(* C2, amended: the class-level passes leave the charge of 'p+' and 'p-'   *)
(* unset; it is assigned once, by the proton-specific statements, which    *)
(* run after those passes; the final charge is +1 for 'p+' and -1 for      *)
(* 'p-'.                                                                   *)
C2_ChargeSetOnceByProtonPass ==
    /\ InCall /\ Position(pc) <= Position("proton_charge") =>
          \A s \in {p_plus, p_minus} :
              /\ s \in DOMAIN Particles => "charge" \notin DOMAIN Particles[s]
              /\ <<s, "charge">> \notin DOMAIN writes
    /\ After("antibaryon") /\ Position(pc) <= Position("proton_charge") =>
          /\ Particles[p_plus]["class"] = "baryon"
          /\ Particles[p_minus]["class"] = "antibaryon"
    /\ After("proton_charge") =>
          /\ Particles[p_plus]["charge"] = 1
          /\ Particles[p_minus]["charge"] = -1
          /\ writes[<<p_plus, "charge">>] = 1
          /\ writes[<<p_minus, "charge">>] = 1
    /\ Finished => _Particles[p_plus]["charge"] = 1 /\ _Particles[p_minus]["charge"] = -1

C2_Witness ==
    /\ pc = "done"
    /\ _Particles[p_plus]["charge"] = 1
    /\ _Particles[p_minus]["charge"] = -1
    /\ writes[<<p_plus, "charge">>] = 1
    /\ writes[<<p_minus, "charge">>] = 1

(* C3: once ParticleZoo is constructed, matter and antimatter are disjoint *)
(* and cover the 16 symbols of everything; fermion is the union of lepton, *)
(* antilepton, baryon and antibaryon; boson is present, empty and disjoint *)
(* from every other set; the neutrinos are leptons and the antineutrinos   *)
(* antileptons.                                                            *)
C3_TaxonomyInvariants ==
    pc # "import" =>
        /\ Zoo_particles \cap Zoo_antiparticles = {}
        /\ Cardinality(Zoo_everything) = 16
        /\ \A s \in Zoo_everything : (s \in Zoo_particles) # (s \in Zoo_antiparticles)
        /\ Zoo_fermions =
              Zoo_leptons \cup Zoo_antileptons \cup Zoo_baryons \cup Zoo_antibaryons
        /\ "boson" \in DOMAIN _taxonomy_dict
        /\ Zoo_bosons = {}
        /\ \A k \in DOMAIN _taxonomy_dict \ {"boson"} : Zoo_bosons \cap _taxonomy_dict[k] = {}
        /\ Zoo_neutrinos \subseteq Zoo_leptons
        /\ Zoo_antineutrinos \subseteq Zoo_antileptons

C3_Witness ==
    /\ pc = "call"
    /\ calls = 0
    /\ Zoo_neutrinos = {nu_e, nu_mu, nu_tau}
    /\ Zoo_antineutrinos = {anti_nu_e, anti_nu_mu, anti_nu_tau}
    /\ p_plus \in Zoo_particles
    /\ p_minus \in Zoo_antiparticles

(* C4: once ParticleZoo is constructed, the keys of the taxonomy mapping   *)
(* are exactly lepton, antilepton, baryon, antibaryon, fermion, boson,     *)
(* neutrino, antineutrino, matter and antimatter.                          *)
C4_TaxonomyKeys ==
    pc # "import" =>
        DOMAIN _taxonomy_dict =
            {"lepton", "antilepton", "baryon", "antibaryon", "fermion", "boson",
             "neutrino", "antineutrino", "matter", "antimatter"}

(* C5: in the finished registry every neutrino and antineutrino has charge *)
(* 0 and the mass None, never a quantity; every other lepton has a         *)
(* quantity as its mass and charge -1, every other antilepton a quantity   *)
(* and charge +1.                                                          *)
C5_NeutrinoChargeAndMass ==
    Finished =>
        /\ \A s \in Zoo_neutrinos \cup Zoo_antineutrinos :
              /\ _Particles[s]["charge"] = 0
              /\ _Particles[s]["mass"] = None
              /\ ~IsQuantity(_Particles[s]["mass"])
        /\ \A s \in Zoo_leptons \ Zoo_neutrinos :
              /\ _Particles[s]["charge"] = -1
              /\ IsQuantity(_Particles[s]["mass"])
        /\ \A s \in Zoo_antileptons \ Zoo_antineutrinos :
              /\ _Particles[s]["charge"] = 1
              /\ IsQuantity(_Particles[s]["mass"])

C5_Witness ==
    /\ Finished
    /\ _Particles[anti_nu_mu]["mass"] = None
    /\ _Particles[nu_e]["charge"] = 0
    /\ _Particles[e_minus]["mass"] = m_e
    /\ _Particles[tau_plus]["charge"] = 1

\* <<class, lepton number, baryon number>> of a record.
ClassNumbers(record) ==
    <<record["class"], record["lepton number"], record["baryon number"]>>

(* C6: in the finished registry class, lepton number and baryon number are *)
(* ('lepton', 1, 0) for the leptons, ('antilepton', -1, 0) for the         *)
(* antileptons, ('baryon', 0, 1) for the baryons and ('antibaryon', 0, -1) *)
(* for the antibaryons, and every symbol is in exactly one of these four   *)
(* sets.                                                                   *)
C6_ClassByMembership ==
    Finished =>
        \A s \in Zoo_everything :
            /\ Cardinality({k \in {"lepton", "antilepton", "baryon", "antibaryon"} :
                               s \in _taxonomy_dict[k]}) = 1
            /\ s \in Zoo_leptons => ClassNumbers(_Particles[s]) = <<"lepton", 1, 0>>
            /\ s \in Zoo_antileptons => ClassNumbers(_Particles[s]) = <<"antilepton", -1, 0>>
            /\ s \in Zoo_baryons => ClassNumbers(_Particles[s]) = <<"baryon", 0, 1>>
            /\ s \in Zoo_antibaryons => ClassNumbers(_Particles[s]) = <<"antibaryon", 0, -1>>

C6_Witness ==
    /\ Finished
    /\ ClassNumbers(_Particles[nu_tau]) = <<"lepton", 1, 0>>
    /\ ClassNumbers(_Particles[mu_plus]) = <<"antilepton", -1, 0>>
    /\ ClassNumbers(_Particles[n]) = <<"baryon", 0, 1>>
    /\ ClassNumbers(_Particles[p_minus]) = <<"antibaryon", 0, -1>>

(* C7: a further build against the same ParticleZoo returns a registry     *)
(* equal, field for field, to the one of the first build, whatever the     *)
(* order in which each loop visits its set; and every field a further      *)
(* build has assigned so far has the value the first build gave it.        *)
C7_RebuildIdentical ==
    /\ calls >= 2 => rebuilt = _Particles
    /\ Finished /\ InCall =>
          \A s \in DOMAIN Particles :
              \A f \in DOMAIN Particles[s] : Particles[s][f] = _Particles[s][f]

C7_Witness ==
    /\ calls = 2
    /\ pc = "done"
    /\ DOMAIN rebuilt = Zoo_everything
    /\ rebuilt = _Particles
    /\ rebuilt[mu_minus]["half-life"] = t_mu

DecayingSymbols == {mu_minus, mu_plus, tau_minus, tau_plus, n, antineutron}

(* C8: when the default half-life pass starts, the lepton-mass pass and    *)
(* the neutron pass have given 'mu-', 'mu+', 'tau-', 'tau+', 'n' and       *)
(* 'antineutron' their finite half-lives; the default pass leaves them as  *)
(* they are; in the finished registry the half-life is finite for exactly  *)
(* these six (881.5 s for 'n' and 'antineutron') and infinite for the      *)
(* other ten, and no half-life was assigned twice.                         *)
C8_DefaultHalfLife ==
    /\ After("neutron") =>
          \A s \in DecayingSymbols :
              /\ "half-life" \in DOMAIN Particles[s]
              /\ Particles[s]["half-life"] =
                    IF s \in {mu_minus, mu_plus} THEN t_mu
                    ELSE IF s \in {tau_minus, tau_plus} THEN t_tau ELSE t_n
    /\ After("half_life") =>
          \A s \in Zoo_everything : writes[<<s, "half-life">>] = 1
    /\ Finished =>
          /\ {s \in Zoo_everything : IsFinite(_Particles[s]["half-life"])} = DecayingSymbols
          /\ \A s \in Zoo_everything \ DecayingSymbols : _Particles[s]["half-life"] = t_inf
          /\ _Particles[n]["half-life"] = t_n
          /\ _Particles[antineutron]["half-life"] = t_n
          /\ Cardinality(Zoo_everything \ DecayingSymbols) = 10

C8_Witness ==
    /\ pc = "done"
    /\ _Particles[n]["half-life"] = t_n
    /\ _Particles[mu_plus]["half-life"] = t_mu
    /\ _Particles[e_minus]["half-life"] = t_inf
    /\ _Particles[p_plus]["half-life"] = t_inf
    /\ writes[<<n, "half-life">>] = 1

\* The three tests of the generation pass in every order.
TestOrders ==
    {<<generation_tests[a], generation_tests[b], generation_tests[c]>> :
        <<a, b, c>> \in {t \in (1..3) \X (1..3) \X (1..3) : Cardinality({t[1], t[2], t[3]}) = 3}}

\* The family of a lepton or antilepton, by its name in symbols_and_names.
FamilyGeneration(thing) ==
    IF thing \in {e_minus, e_plus, nu_e, anti_nu_e} THEN 1
    ELSE IF thing \in {mu_minus, mu_plus, nu_mu, anti_nu_mu} THEN 2
    ELSE 3

(* C9: for every lepton and antilepton exactly one of the three substring  *)
(* tests of the generation pass matches; tried in any order the tests give *)
(* the same generation; and in the finished registry the generation is 1   *)
(* for the electron family, 2 for the muon family and 3 for the tau        *)
(* family.                                                                 *)
C9_GenerationByFamily ==
    pc # "import" =>
        \A thing \in Zoo_leptons \cup Zoo_antileptons :
            /\ Cardinality({i \in 1..Len(generation_tests) :
                               Contains(generation_tests[i][1], thing)}) = 1
            /\ \A tests \in TestOrders :
                  FirstMatch(tests, thing) = << <<thing, "generation", FamilyGeneration(thing)>> >>
            /\ Finished => _Particles[thing]["generation"] = FamilyGeneration(thing)

C9_Witness ==
    /\ Finished
    /\ _Particles[anti_nu_mu]["generation"] = 2
    /\ _Particles[nu_e]["generation"] = 1
    /\ _Particles[tau_minus]["generation"] = 3

(* The registry a build makes when its passes run in the order `order`,    *)
(* each loop visiting its elements in one fixed order.                     *)
RECURSIVE RunSet(_, _, _)
RunSet(label, P, S) ==
    IF S = {} \/ S \cap DOMAIN P = {} THEN P
    ELSE LET x == CHOOSE y \in S \cap DOMAIN P : TRUE
         IN  RunSet(label, Exec(P, BodyOf(label, P, x)), S \ {x})

RECURSIVE RunList(_, _, _)
RunList(label, P, list) ==
    IF list = << >> \/ DOMAIN P = {} THEN P
    ELSE RunList(label, Exec(P, BodyOf(label, P, Head(list))), Tail(list))

RunPass(label, P) ==
    IF label = "proton_charge" THEN Exec(P, ProtonChargeBlock)
    ELSE IF ListOf(label) # << >> THEN RunList(label, P, ListOf(label))
    ELSE RunSet(label, P, Items(label))

RECURSIVE RunOrder(_, _)
RunOrder(order, P) ==
    IF order = << >> THEN P
    ELSE RunOrder(Tail(order), RunPass(Head(order), P))

\* The passes between the creation of the records and the return.
Passes == SubSeq(Order, 2, Len(Order) - 1)

\* Passes with the passes at i and j exchanged.
Swapped(i, j) ==
    [k \in 1..Len(Passes) |->
        IF k = i THEN Passes[j] ELSE IF k = j THEN Passes[i] ELSE Passes[k]]

\* Passes with the pass at i moved to the place j.
Moved(i, j) ==
    LET without == SubSeq(Passes, 1, i - 1) \o SubSeq(Passes, i + 1, Len(Passes))
    IN  SubSeq(without, 1, j - 1) \o <<Passes[i]>> \o SubSeq(without, j, Len(without))

Reorderings ==
    {Swapped(i, j) : i, j \in 1..Len(Passes)} \cup {Moved(i, j) : i, j \in 1..Len(Passes)}

Place(order, label) == CHOOSE i \in 1..Len(order) : order[i] = label

\* The default half-life pass comes after the passes that set finite half-lives.
DefaultHalfLifeLast(order) ==
    /\ Place(order, "half_life") > Place(order, "mass")
    /\ Place(order, "half_life") > Place(order, "neutron")

(* C10 as stated: during a build no <<symbol, field>> is assigned more     *)
(* than once; the registry is the same under every order of the passes     *)
(* that keeps the default half-life pass after the passes that set finite  *)
(* half-lives, and it is another one under some order that does not.       *)
C10_RegistryDependsOnHalfLifeOrder ==
    /\ \A pair \in DOMAIN writes : writes[pair] = 1
    /\ pc = "done" =>
          \A order \in Reorderings :
              DefaultHalfLifeLast(order) =>
                  RunOrder(order, [s \in Zoo_everything |-> << >>]) = _Particles
    /\ pc = "done" =>
          \E order \in Reorderings :
              /\ ~DefaultHalfLifeLast(order)
              /\ RunOrder(order, [s \in Zoo_everything |-> << >>]) # _Particles

(* C10, amended: during a build no <<symbol, field>> is assigned more than *)
(* once, and at the end every field of every record was assigned exactly   *)
(* once; and with two passes exchanged, or one pass moved, the default     *)
(* half-life pass included, the build makes the same registry.             *)
C10_AssignedOnce ==
    /\ \A pair \in DOMAIN writes : writes[pair] = 1
    /\ pc = "done" =>
          \A s \in Zoo_everything :
              \A f \in DOMAIN Particles[s] : <<s, f>> \in DOMAIN writes
    /\ pc = "done" =>
          \A order \in Reorderings :
              RunOrder(order, [s \in Zoo_everything |-> << >>]) = _Particles

C10_Witness ==
    /\ pc = "done"
    /\ Cardinality(DOMAIN writes) = 156
    /\ writes[<<mu_minus, "half-life">>] = 1
    /\ writes[<<n, "charge">>] = 1

====
